---------------------------- MODULE Spec2Model ----------------------------
(***************************************************************************)
(* Incremental ingestion pipeline for daily price candles:                *)
(*   python/ingested_multiple_symbols.py  (resolver, aggregator,          *)
(*                                         ingest_alpha_vantage, run_all) *)
(*   python/providers/alpha_vantage.py    (fetch_daily, fetch_intraday)   *)
(*                                                                         *)
(* Strings are sequences of one-character strings (symbols) or of digits  *)
(* (dates, timestamps), compared the way Python compares str values.      *)
(* A calendar date "2022-01-DD" is written with DateLen digits holding    *)
(* its day ordinal (ordinal 1 = 2022-01-01, ordinal 0 = 2021-12-31); a    *)
(* timestamp is a date followed by TimeLen digits of time.                *)
(* An optional value (Python None) is a set: {} is None, {x} is x.        *)
(***************************************************************************)
EXTENDS Integers, Sequences, FiniteSets, TLC

VARIABLES
    \* ---- process configuration (environment) and the clock
    env,          \* [store_creds, api_key, overlap_days, batch_size]
    config,       \* [SYMBOLS, SYMBOL]: the text of the two environment variables
    symbols,      \* the list of display symbols __main__ made of them
    now,          \* current UTC day ordinal
    run,          \* number of the current run of the job
    \* ---- control state of __main__ / run_all / ingest_alpha_vantage
    pc,           \* position in the code
    idx,          \* enumerate index of run_all's loop (1-based)
    results,      \* run_all's results map: display symbol -> result
    loc,          \* locals of the running ingest_alpha_vantage call
    \* ---- the store
    instruments,  \* table instruments, in insertion order (id = position)
    ohlcv,        \* table ohlcv_data, in insertion order
    \* ---- observation of the run (history, not read by the program)
    outcome,      \* per processed list position: "skipped" | "ok" | "failed"
    calls,        \* store and upstream calls made in this run
    ohlcv0,       \* table ohlcv_data when the running ingest call started
    batchLog,     \* batches attempted by the running ingest call
    prev,         \* summary of the ingest call that returned last
    \* ---- provider adapter exercised alone
    req,          \* [mode, symbol, since, until] of a fetch
    resp,         \* the upstream response to it
    fres,         \* what fetch_daily / fetch_intraday did with it
    \* ---- intraday aggregator exercised alone
    intraday,     \* input list of intraday candles
    reordered,    \* a reordering of the same list
    agg,          \* aggregate_intraday_to_daily(intraday), once applied
    agg2,         \* aggregate_intraday_to_daily(reordered), once applied
    \* ---- symbol resolver exercised alone
    rinput,       \* the text given to resolve_alpha_vantage_symbol
    resolved      \* what it returned, once applied

vars == <<env, config, symbols, now, run, pc, idx, results, loc, instruments, ohlcv,
          outcome, calls, ohlcv0, batchLog, prev, req, resp, fres,
          intraday, reordered, agg, agg2, rinput, resolved>>

orchVars == <<env, config, symbols, now, run, pc, idx, results, loc, instruments,
              ohlcv, outcome, calls, ohlcv0, batchLog, prev>>
fetchVars == <<req, resp, fres>>
aggVars == <<intraday, reordered, agg, agg2>>
resVars == <<rinput, resolved>>

-----------------------------------------------------------------------------
(* Bounds of the model                                                     *)

\* digits of a date string (the "YYYY-MM-DD" of the code is 10 characters)
DateLen == 2
\* digits of the time part of a timestamp
TimeLen == 1
\* highest day ordinal the clock reaches
MaxDay == 2
\* number of runs of the job
MaxRuns == 2

None == {}
Some(x) == {x}
\* the value of a non-None optional
The(o) == CHOOSE x \in o : TRUE

-----------------------------------------------------------------------------
(* Python str operations on sequences                                      *)

Min2(a, b) == IF a <= b THEN a ELSE b

\* str < str on digit strings: lexicographic, a proper prefix is smaller
RECURSIVE StrLt(_, _)
StrLt(a, b) ==
    IF b = <<>> THEN FALSE
    ELSE IF a = <<>> THEN TRUE
    ELSE IF a[1] = b[1] THEN StrLt(Tail(a), Tail(b))
    ELSE a[1] < b[1]

StrLe(a, b) == a = b \/ StrLt(a, b)
StrGe(a, b) == StrLe(b, a)
StrGt(a, b) == StrLt(b, a)

StartsWith(s, p) == Len(s) >= Len(p) /\ SubSeq(s, 1, Len(p)) = p
EndsWith(s, p) ==
    Len(s) >= Len(p) /\ SubSeq(s, Len(s) - Len(p) + 1, Len(s)) = p
\* sub in s
Contains(s, sub) ==
    \E i \in 1..(Len(s) - Len(sub) + 1) : SubSeq(s, i, i + Len(sub) - 1) = sub

UpperChar(c) ==
    CASE c = "a" -> "A" [] c = "l" -> "L" [] c = "p" -> "P"
      [] c = "s" -> "S" [] c = "u" -> "U" [] c = "d" -> "D"
      [] c = "b" -> "B" [] c = "t" -> "T" [] c = "c" -> "C"
      [] c = "g" -> "G" [] c = "f" -> "F" [] c = "x" -> "X"
      [] OTHER -> c
Upper(s) == [i \in 1..Len(s) |-> UpperChar(s[i])]

RECURSIVE LStrip(_)
LStrip(s) == IF s # <<>> /\ s[1] = " " THEN LStrip(Tail(s)) ELSE s
RECURSIVE RStrip(_)
RStrip(s) ==
    IF s # <<>> /\ s[Len(s)] = " " THEN RStrip(SubSeq(s, 1, Len(s) - 1)) ELSE s
Strip(s) == RStrip(LStrip(s))

\* s.split(sep, 1) for a one-character sep that occurs in s
SplitOnce(s, sep) ==
    LET k == CHOOSE i \in 1..Len(s) :
                 s[i] = sep /\ \A j \in 1..(i - 1) : s[j] # sep
    IN  <<SubSeq(s, 1, k - 1), SubSeq(s, k + 1, Len(s))>>

-----------------------------------------------------------------------------
(* Dates: iso_date / datetime.fromisoformat on the fixed-width format      *)

RECURSIVE Pow10(_)
Pow10(n) == IF n <= 0 THEN 1 ELSE 10 * Pow10(n - 1)

\* n zero-padded to w digits
Digits(n, w) == [i \in 1..w |-> (n \div Pow10(w - i)) % 10]

\* iso_date(dt): the fixed-width text of day ordinal n
iso_date(n) == Digits(n, DateLen)

\* the timestamp text of hour h of day ordinal n
Timestamp(n, h) == Digits(n, DateLen) \o Digits(h, TimeLen)

RECURSIVE DigitsValue(_)
DigitsValue(s) ==
    IF s = <<>> THEN 0 ELSE 10 * DigitsValue(SubSeq(s, 1, Len(s) - 1)) + s[Len(s)]

\* datetime.fromisoformat(str(date)): the day ordinal of a stored date
fromisoformat(s) == DigitsValue(s)

-----------------------------------------------------------------------------
(* Symbol resolver: resolve_alpha_vantage_symbol                           *)

AAPL == <<"A", "A", "P", "L">>
SPY == <<"S", "P", "Y">>
QQQ == <<"Q", "Q", "Q">>
IEF == <<"I", "E", "F">>
GLD == <<"G", "L", "D">>
GSPC == <<"^", "G", "S", "P", "C">>
IXIC == <<"^", "I", "X", "I", "C">>
TNX == <<"^", "T", "N", "X">>
GCF == <<"G", "C", "=", "F">>
DJI == <<"^", "D", "J", "I">>
BTCUSD == <<"B", "T", "C", "-", "U", "S", "D">>
DashUSD == <<"-", "U", "S", "D">>

\* proxy_map of the resolver
proxy_map ==
    (GSPC :> SPY) @@ (IXIC :> QQQ) @@ (TNX :> IEF) @@ (GCF :> GLD)

\* is_crypto_pair / the crypto test shared by resolver, ingest and provider
IsCryptoPair(raw, upper) == Contains(raw, <<"-">>) /\ EndsWith(upper, DashUSD)

\* variant: only a leading "^" is skipped, futures pass as equities
ResolveFuturesNotSkipped(input_symbol) ==
    LET s == Strip(input_symbol)
        upper == Upper(s)
    IN  IF IsCryptoPair(upper, upper)
          THEN [api |-> upper, note |-> <<"crypto">>]
        ELSE IF upper \in DOMAIN proxy_map
          THEN [api |-> proxy_map[upper], note |-> <<"proxy_for:", upper>>]
        ELSE IF StartsWith(upper, <<"^">>)
          THEN [api |-> <<>>, note |-> <<"skip_unsupported">>]
        ELSE [api |-> upper, note |-> <<"equity">>]

\* variant: a crypto pair is passed on as typed, not uppercased
ResolveCryptoAsTyped(input_symbol) ==
    LET s == Strip(input_symbol)
        upper == Upper(s)
    IN  IF IsCryptoPair(upper, upper)
          THEN [api |-> s, note |-> <<"crypto">>]
        ELSE IF upper \in DOMAIN proxy_map
          THEN [api |-> proxy_map[upper], note |-> <<"proxy_for:", upper>>]
        ELSE IF StartsWith(upper, <<"^">>) \/ Contains(upper, <<"=", "F">>)
          THEN [api |-> <<>>, note |-> <<"skip_unsupported">>]
        ELSE [api |-> upper, note |-> <<"equity">>]

\* variant: the skip test comes before the proxy lookup
ResolveSkipBeforeProxy(input_symbol) ==
    LET s == Strip(input_symbol)
        upper == Upper(s)
    IN  IF IsCryptoPair(upper, upper)
          THEN [api |-> upper, note |-> <<"crypto">>]
        ELSE IF StartsWith(upper, <<"^">>) \/ Contains(upper, <<"=", "F">>)
          THEN [api |-> <<>>, note |-> <<"skip_unsupported">>]
        ELSE IF upper \in DOMAIN proxy_map
          THEN [api |-> proxy_map[upper], note |-> <<"proxy_for:", upper>>]
        ELSE [api |-> upper, note |-> <<"equity">>]

\* (api_symbol, note); a note is <<tag>> or <<"proxy_for:", upper>>
resolve_alpha_vantage_symbol(input_symbol) ==
    LET s == Strip(input_symbol)
        upper == Upper(s)
    IN  IF IsCryptoPair(upper, upper)
          THEN [api |-> upper, note |-> <<"crypto">>]
        ELSE IF upper \in DOMAIN proxy_map
          THEN [api |-> proxy_map[upper], note |-> <<"proxy_for:", upper>>]
        ELSE IF StartsWith(upper, <<"^">>) \/ Contains(upper, <<"=", "F">>)
          THEN [api |-> <<>>, note |-> <<"skip_unsupported">>]
        ELSE [api |-> upper, note |-> <<"equity">>]

-----------------------------------------------------------------------------
(* Provider adapter: AlphaVantageProvider                                  *)

\* JSON values of a series entry's fields: a numeric string, a string that
\* is no number, the empty string, null
Num(n) == <<"num", n>>
BadStr == <<"bad", 0>>
EmptyStr == <<"empty", 0>>
Null == <<"null", 0>>

\* v.get(k)
Get(v, k) == IF k \in DOMAIN v THEN Some(v[k]) ELSE None
\* v.get(k, 0): the default 0 converts like the string "0"
GetOr0(v, k) == IF k \in DOMAIN v THEN Some(v[k]) ELSE Some(Num(0))
\* bool(x) of an optional JSON value: None and "" are falsy
Truthy(o) == o # None /\ The(o)[1] \in {"num", "bad"}
\* a or b
Or(a, b) == IF Truthy(a) THEN a ELSE b
\* float(x) / int(x) succeed
Converts(o) == o # None /\ The(o)[1] = "num"
Float(o) == The(o)[2]

\* indices of keys in the order of a stable ascending sort (list.sort(key=))
RECURSIVE InsertStable(_, _, _)
InsertStable(perm, keys, i) ==
    IF perm = <<>> THEN <<i>>
    ELSE IF StrLt(keys[i], keys[perm[Len(perm)]])
      THEN Append(InsertStable(SubSeq(perm, 1, Len(perm) - 1), keys, i),
                  perm[Len(perm)])
    ELSE Append(perm, i)

RECURSIVE SortPerm(_, _)
SortPerm(keys, n) ==
    IF n = 0 THEN <<>> ELSE InsertStable(SortPerm(keys, n - 1), keys, n)

SortByDate(rows) ==
    LET perm == SortPerm([i \in 1..Len(rows) |-> rows[i].date], Len(rows))
    IN  [i \in 1..Len(rows) |-> rows[perm[i]]]

SortByTs(rows) ==
    LET perm == SortPerm([i \in 1..Len(rows) |-> rows[i].ts], Len(rows))
    IN  [i \in 1..Len(rows) |-> rows[perm[i]]]

RECURSIVE SelectIdx(_, _, _)
\* the elements of s at the positions < = n that satisfy keep[i], in order
SelectIdx(s, keep, n) ==
    IF n = 0 THEN <<>>
    ELSE IF keep[n] THEN Append(SelectIdx(s, keep, n - 1), s[n])
    ELSE SelectIdx(s, keep, n - 1)

\* variant: both ends of the window excluded
InWindowExclusive(key, since, until) ==
    /\ (since = None \/ StrGt(key, The(since)))
    /\ (until = None \/ StrLt(key, The(until)))

\* variant: only the upper end of the window is applied
InWindowUntilOnly(key, since, until) ==
    until = None \/ StrLe(key, The(until))

\* since is None or key >= since, and until is None or key <= until
InWindow(key, since, until) ==
    /\ (since = None \/ StrGe(key, The(since)))
    /\ (until = None \/ StrLe(key, The(until)))

FilterByDate(rows, since, until) ==
    SelectIdx(rows, [i \in 1..Len(rows) |-> InWindow(rows[i].date, since, until)],
              Len(rows))

FilterByTs(rows, since, until) ==
    SelectIdx(rows, [i \in 1..Len(rows) |-> InWindow(rows[i].ts, since, until)],
              Len(rows))

\* days within which the equity daily fetch asks for the compact payload
CompactDays == 100

\* an upstream response: the GET timed out, or came back with a status and
\* a JSON body [error, note, info : the out-of-band keys present,
\*              skey : the series key present, series : its entries in JSON
\*              order, each [key : date or timestamp, v : field -> value]]
ErrApi == "AlphaVantage API Error"
ErrRate == "AlphaVantage Rate Limit"
ErrInfo == "AlphaVantage Info"
ErrPayload == "Unexpected AlphaVantage payload"
ErrHttp == "HTTPStatusError"
ErrTimeout == "TimeoutException"
ErrValue == "ValueError"

Raised(msg, request) == [ok |-> FALSE, err |-> msg, candles |-> <<>>, request |-> request]
Returned(rows, request) == [ok |-> TRUE, err |-> "", candles |-> rows, request |-> request]

\* one entry of the crypto daily series (inside the try of the loop):
\* the candle, or None when the entry is skipped or its parsing raised
CryptoDailyEntry(date, v) ==
    LET usd == "1a. open (USD)" \in DOMAIN v \/ "1b. open (USD)" \in DOMAIN v
        open_val == IF usd THEN Or(Get(v, "1a. open (USD)"), Get(v, "1b. open (USD)"))
                           ELSE Get(v, "1. open")
        high_val == IF usd THEN Or(Get(v, "2a. high (USD)"), Get(v, "2b. high (USD)"))
                           ELSE Get(v, "2. high")
        low_val == IF usd THEN Or(Get(v, "3a. low (USD)"), Get(v, "3b. low (USD)"))
                          ELSE Get(v, "3. low")
        close_val == IF usd THEN Or(Get(v, "4a. close (USD)"), Get(v, "4b. close (USD)"))
                            ELSE Get(v, "4. close")
        present == Truthy(open_val) /\ Truthy(high_val) /\ Truthy(low_val)
                   /\ Truthy(close_val)
        converts == /\ Converts(open_val) /\ Converts(high_val)
                    /\ Converts(low_val) /\ Converts(close_val)
                    /\ ("5. volume" \in DOMAIN v => Converts(Get(v, "5. volume")))
    IN  IF present /\ converts
          THEN Some([date |-> date, open |-> Float(open_val),
                     high |-> Float(high_val), low |-> Float(low_val),
                     close |-> Float(close_val),
                     volume |-> IF "5. volume" \in DOMAIN v
                                  THEN Some(Float(Get(v, "5. volume"))) ELSE None])
          ELSE None

\* the rows list the crypto daily loop builds from the first n entries
RECURSIVE CryptoDailyRows(_, _)
CryptoDailyRows(series, n) ==
    IF n = 0 THEN <<>>
    ELSE LET c == CryptoDailyEntry(series[n].key, series[n].v)
         IN  IF c = None THEN CryptoDailyRows(series, n - 1)
             ELSE Append(CryptoDailyRows(series, n - 1), The(c))

\* the four float() and the int() of an equity or intraday entry succeed
PlainEntryConverts(v) ==
    /\ Converts(GetOr0(v, "1. open")) /\ Converts(GetOr0(v, "2. high"))
    /\ Converts(GetOr0(v, "3. low")) /\ Converts(GetOr0(v, "4. close"))
    /\ (Truthy(Get(v, "5. volume")) => Converts(Get(v, "5. volume")))

PlainVolume(v) ==
    IF Truthy(Get(v, "5. volume")) THEN Some(Float(Get(v, "5. volume"))) ELSE None

\* one entry of the equity daily series
EquityDailyEntry(date, v) ==
    [date |-> date, open |-> Float(GetOr0(v, "1. open")),
     high |-> Float(GetOr0(v, "2. high")), low |-> Float(GetOr0(v, "3. low")),
     close |-> Float(GetOr0(v, "4. close")), volume |-> PlainVolume(v)]

\* one entry of an intraday series (crypto and equity alike)
IntradayEntry(ts, v) ==
    [ts |-> ts, open |-> Float(GetOr0(v, "1. open")),
     high |-> Float(GetOr0(v, "2. high")), low |-> Float(GetOr0(v, "3. low")),
     close |-> Float(GetOr0(v, "4. close")), volume |-> PlainVolume(v)]

\* variant: the "Note" key is not looked at
BodyErrorNoteIgnored(r, skey) ==
    IF r.timeout THEN ErrTimeout
    ELSE IF r.status # 200 THEN ErrHttp
    ELSE IF r.body.error THEN ErrApi
    ELSE IF r.body.info THEN ErrInfo
    ELSE IF r.body.skey # skey THEN ErrPayload
    ELSE ""

\* the checks every path makes on the response before it reads the series:
\* "" when it may go on, else the failure
BodyError(r, skey) ==
    IF r.timeout THEN ErrTimeout
    ELSE IF r.status # 200 THEN ErrHttp
    ELSE IF r.body.error THEN ErrApi
    ELSE IF r.body.note THEN ErrRate
    ELSE IF r.body.info THEN ErrInfo
    ELSE IF r.body.skey # skey THEN ErrPayload
    ELSE ""

DailyRequest(symbol, since, nowday) ==
    IF IsCryptoPair(symbol, Upper(symbol))
      THEN LET parts == SplitOnce(Upper(symbol), "-")
           IN  [function |-> "DIGITAL_CURRENCY_DAILY", symbol |-> parts[1],
                market |-> parts[2], interval |-> "", outputsize |-> ""]
      ELSE [function |-> "TIME_SERIES_DAILY", symbol |-> symbol, market |-> <<>>,
            interval |-> "",
            outputsize |-> IF since # None /\ The(since) # <<>>
                                /\ nowday - fromisoformat(The(since)) <= CompactDays
                             THEN "compact" ELSE "full"]

\* AlphaVantageProvider.fetch_daily
fetch_daily(symbol, since, until, r, nowday) ==
    LET crypto == IsCryptoPair(symbol, Upper(symbol))
        request == DailyRequest(symbol, since, nowday)
        skey == IF crypto THEN <<"Time Series (Digital Currency Daily)", "">>
                          ELSE <<"Time Series (Daily)", "">>
        e == BodyError(r, skey)
        series == r.body.series
        n == Len(series)
    IN  IF e # "" THEN Raised(e, request)
        ELSE IF crypto
          THEN LET rows == CryptoDailyRows(series, n)
               IN  Returned(SortByDate(FilterByDate(rows, since, until)), request)
        ELSE IF \E i \in 1..n : ~PlainEntryConverts(series[i].v)
          THEN Raised(ErrValue, request)
        ELSE LET rows == [i \in 1..n |-> EquityDailyEntry(series[i].key, series[i].v)]
             IN  Returned(SortByDate(FilterByDate(rows, since, until)), request)

\* AlphaVantageProvider.fetch_intraday
fetch_intraday(symbol, interval, since_ts, until_ts, r) ==
    LET crypto == IsCryptoPair(symbol, Upper(symbol))
        request ==
            IF crypto
              THEN LET parts == SplitOnce(Upper(symbol), "-")
                   IN  [function |-> "CRYPTO_INTRADAY", symbol |-> parts[1],
                        market |-> parts[2], interval |-> interval,
                        outputsize |-> ""]
              ELSE [function |-> "TIME_SERIES_INTRADAY", symbol |-> symbol,
                    market |-> <<>>, interval |-> interval,
                    outputsize |-> "compact"]
        skey == IF crypto THEN <<"Time Series Crypto", interval>>
                          ELSE <<"Time Series", interval>>
        e == BodyError(r, skey)
        series == r.body.series
        n == Len(series)
    IN  IF e # "" THEN Raised(e, request)
        ELSE IF \E i \in 1..n : ~PlainEntryConverts(series[i].v)
          THEN Raised(ErrValue, request)
        ELSE LET rows == [i \in 1..n |-> IntradayEntry(series[i].key, series[i].v)]
             IN  Returned(SortByTs(FilterByTs(rows, since_ts, until_ts)), request)

-----------------------------------------------------------------------------
(* Intraday aggregator: aggregate_intraday_to_daily                        *)

Max2(a, b) == IF a >= b THEN a ELSE b

\* c.get("volume") or 0
VolumeOr0(o) == IF o = None THEN 0 ELSE The(o)

\* c["ts"][0:10]
DateKey(ts) == SubSeq(ts, 1, Min2(DateLen, Len(ts)))

\* variant: open of the first candle of the list, close of the last one
AggregateStepPositional(by_date, c) ==
    LET date_key == DateKey(c.ts)
    IN  IF date_key \notin DOMAIN by_date
          THEN (date_key :> [open |-> c.open, high |-> c.high, low |-> c.low,
                             close |-> c.close, volume |-> VolumeOr0(c.volume),
                             first_ts |-> c.ts, last_ts |-> c.ts]) @@ by_date
          ELSE LET bar == by_date[date_key]
               IN  [by_date EXCEPT ![date_key] =
                       [open |-> bar.open,
                        high |-> Max2(bar.high, c.high),
                        low |-> Min2(bar.low, c.low),
                        close |-> c.close,
                        volume |-> bar.volume + VolumeOr0(c.volume),
                        first_ts |-> bar.first_ts,
                        last_ts |-> c.ts]]

\* one iteration of the loop over the input list
AggregateStep(by_date, c) ==
    LET date_key == DateKey(c.ts)
    IN  IF date_key \notin DOMAIN by_date
          THEN (date_key :> [open |-> c.open, high |-> c.high, low |-> c.low,
                             close |-> c.close, volume |-> VolumeOr0(c.volume),
                             first_ts |-> c.ts, last_ts |-> c.ts]) @@ by_date
          ELSE LET bar == by_date[date_key]
                   earlier == StrLt(c.ts, bar.first_ts)
                   later == StrGt(c.ts, bar.last_ts)
               IN  [by_date EXCEPT ![date_key] =
                       [open |-> IF earlier THEN c.open ELSE bar.open,
                        high |-> Max2(bar.high, c.high),
                        low |-> Min2(bar.low, c.low),
                        close |-> IF later THEN c.close ELSE bar.close,
                        volume |-> bar.volume + VolumeOr0(c.volume),
                        first_ts |-> IF earlier THEN c.ts ELSE bar.first_ts,
                        last_ts |-> IF later THEN c.ts ELSE bar.last_ts]]

RECURSIVE AggregateFirst(_, _)
\* by_date after the first n candles
AggregateFirst(list, n) ==
    IF n = 0 THEN <<>> ELSE AggregateStep(AggregateFirst(list, n - 1), list[n])

aggregate_intraday_to_daily(list) == AggregateFirst(list, Len(list))

-----------------------------------------------------------------------------
(* The store, as ingest_alpha_vantage uses it                              *)

\* variant: the lookup is also filtered by a currency no record has
InstrumentHitsInCurrency(table, symbol) ==
    {i \in 1..Len(table) : table[i].symbol = symbol /\ table[i].currency = "EUR"}

\* instruments.select("*").eq("symbol", s).limit(1): positions of the hits
InstrumentHits(table, symbol) == {i \in 1..Len(table) : table[i].symbol = symbol}
MinOf(S) == CHOOSE x \in S : \A y \in S : x <= y

\* position of the row with the conflict key (instrument_id, date), or 0
ConflictAt(table, row) ==
    LET hits == {i \in 1..Len(table) :
                    /\ table[i].instrument_id = row.instrument_id
                    /\ table[i].date = row.date}
    IN  IF hits = {} THEN 0 ELSE MinOf(hits)

\* one row of an upsert with on_conflict="instrument_id,date"
UpsertRow(table, row) ==
    LET k == ConflictAt(table, row)
    IN  IF k = 0 THEN Append(table, row) ELSE [table EXCEPT ![k] = row]

RECURSIVE UpsertFirst(_, _, _)
UpsertFirst(table, rows, n) ==
    IF n = 0 THEN table ELSE UpsertRow(UpsertFirst(table, rows, n - 1), rows[n])

\* variant: a plain insert, no conflict target
InsertRows(table, rows) == table \o rows

\* ohlcv_data.upsert(rows, on_conflict="instrument_id,date") that succeeds
Upsert(table, rows) == UpsertFirst(table, rows, Len(rows))

\* variant: the latest date of the whole table, without the instrument filter
LatestDateOfAll(table, instrument_id) ==
    LET dates == {table[i].date : i \in 1..Len(table)}
    IN  IF dates = {} THEN None
        ELSE Some(CHOOSE d \in dates : \A e \in dates : StrLe(e, d))

\* ohlcv_data.select("date").eq("instrument_id", id).order("date", desc).limit(1)
LatestDate(table, instrument_id) ==
    LET dates == {table[i].date : i \in {j \in 1..Len(table) :
                                           table[j].instrument_id = instrument_id}}
    IN  IF dates = {} THEN None
        ELSE Some(CHOOSE d \in dates : \A e \in dates : StrLe(e, d))

RowsOf(table, instrument_id) ==
    {i \in 1..Len(table) : table[i].instrument_id = instrument_id}

-----------------------------------------------------------------------------
(* Ingestion orchestrator: __main__, run_all, ingest_alpha_vantage         *)

\* day ordinal of the default start date "2022-01-01"
DefaultStart == 1
\* most entries of an upstream series
MaxEntries == 2

ErrStoreCreds == "SUPABASE_URL and SUPABASE_SERVICE_ROLE_KEY are required"
ErrApiKey == "ALPHA_VANTAGE_API_KEY is required"
ErrCreate == "Failed to create instrument record"
ErrInsert == "APIError"

\* symbol lists the job is configured with (SYMBOLS / SYMBOL)
SymbolLists ==
    {<<>>, <<AAPL>>, <<GSPC>>, <<DJI, AAPL>>, <<AAPL, AAPL>>,
     <<BTCUSD, DJI, GSPC>>}

\* ",".join(list)
RECURSIVE Join(_)
Join(list) ==
    IF list = <<>> THEN <<>>
    ELSE IF Len(list) = 1 THEN list[1]
    ELSE list[1] \o <<",">> \o Join(Tail(list))

\* s.split(sep) for a one-character sep
RECURSIVE Split(_, _)
Split(s, sep) ==
    IF \A i \in 1..Len(s) : s[i] # sep THEN <<s>>
    ELSE LET parts == SplitOnce(s, sep)
         IN  <<parts[1]>> \o Split(parts[2], sep)

\* variant: SYMBOL is read first, SYMBOLS only when it is blank
ParseSymbolFirst(c) ==
    IF Strip(c.SYMBOL) # <<>> THEN <<Strip(c.SYMBOL)>>
    ELSE LET parts == Split(c.SYMBOLS, ",")
         IN  SelectSeq([i \in 1..Len(parts) |-> Strip(parts[i])],
                       LAMBDA x : x # <<>>)

\* the symbols list of __main__: the entries of SYMBOLS, else SYMBOL
ParseSymbols(c) ==
    IF Strip(c.SYMBOLS) # <<>>
      THEN LET parts == Split(c.SYMBOLS, ",")
           IN  SelectSeq([i \in 1..Len(parts) |-> Strip(parts[i])],
                         LAMBDA x : x # <<>>)
    ELSE IF Strip(c.SYMBOL) # <<>> THEN <<Strip(c.SYMBOL)>>
    ELSE <<>>

NoSymbols == [SYMBOLS |-> <<>>, SYMBOL |-> <<>>]

\* SYMBOLS holding each list; both variables blank; SYMBOL alone; SYMBOLS
\* with blanks and an empty entry; SYMBOLS holding only a comma
Configs ==
    {[SYMBOLS |-> Join(l), SYMBOL |-> <<>>] : l \in SymbolLists}
    \cup {[SYMBOLS |-> <<" ">>, SYMBOL |-> <<" ">>],
          [SYMBOLS |-> <<>>, SYMBOL |-> <<" ">> \o AAPL \o <<" ">>],
          [SYMBOLS |-> <<" ">> \o DJI \o <<" ", ",", " ", ",">> \o AAPL,
           SYMBOL |-> GSPC],
          [SYMBOLS |-> <<",">>, SYMBOL |-> AAPL]}

Config(store, key, overlap, batch) ==
    [store_creds |-> store, api_key |-> key, overlap_days |-> overlap,
     batch_size |-> batch]

\* environments: FETCH_OVERLAP_DAYS and ALPHA_VANTAGE_BATCH_SIZE unset or
\* set; a missing credential
Environments ==
    {Config(TRUE, TRUE, None, None), Config(TRUE, TRUE, None, Some(1)),
     Config(TRUE, TRUE, Some(0), Some(2)),
     Config(FALSE, TRUE, None, None), Config(TRUE, FALSE, None, None)}

\* int(os.environ.get("FETCH_OVERLAP_DAYS", "1"))
DefaultOverlapDays == 1
OverlapDays(e) ==
    IF e.overlap_days = None THEN DefaultOverlapDays ELSE The(e.overlap_days)

\* int(os.environ.get("ALPHA_VANTAGE_BATCH_SIZE", "50"))
DefaultBatchSize == 50
BatchSize(e) == IF e.batch_size = None THEN DefaultBatchSize ELSE The(e.batch_size)

SeqsUpTo(S, n) == UNION {[1..k -> S] : k \in 0..n}

NoLoc ==
    [display |-> <<>>, api |-> <<>>, fetch_symbol |-> <<>>, instrument_id |-> 0,
     since |-> <<>>, today |-> <<>>, candles |-> <<>>, i |-> 0, upserts |-> 0]

\* variant: the fetch always uses the display symbol
FetchDisplaySymbol(api_symbol, display_symbol) == display_symbol

\* fetch_symbol = api_symbol or display_symbol
FetchSymbol(api_symbol, display_symbol) ==
    IF api_symbol # <<>> THEN api_symbol ELSE display_symbol

\* variant: run_all skips nothing
NeverSkip(api_sym, note) == FALSE

\* note == "skip_unsupported" or not api_sym
ShouldSkip(api_sym, note) == note = <<"skip_unsupported">> \/ api_sym = <<>>

\* inst_type of a new instrument record
InstType(instrument_symbol) ==
    IF IsCryptoPair(instrument_symbol, Upper(instrument_symbol)) THEN "crypto"
    ELSE IF StartsWith(instrument_symbol, <<"^">>) THEN "index"
    ELSE IF Contains(instrument_symbol, <<"=", "F">>) THEN "future"
    ELSE "equity"

NewInstrument(id, instrument_symbol) ==
    [id |-> id, symbol |-> instrument_symbol, name |-> instrument_symbol,
     type |-> InstType(instrument_symbol), provider |-> "Alpha Vantage",
     currency |-> "USD"]

\* variant: the window starts at the latest stored date itself
WindowStartNoOverlap(latest, overlap_days) ==
    IF latest # None THEN iso_date(fromisoformat(The(latest)))
    ELSE iso_date(DefaultStart)

\* since of the daily window, from the latest stored date (or None)
WindowStart(latest, overlap_days) ==
    IF latest # None THEN iso_date(fromisoformat(The(latest)) - overlap_days)
    ELSE iso_date(DefaultStart)

\* the row appended for candle c
MakeRow(instrument_id, instrument_symbol, c) ==
    [instrument_id |-> instrument_id, instrument_symbol |-> instrument_symbol,
     date |-> c.date, open |-> c.open, high |-> c.high, low |-> c.low,
     close |-> c.close, volume |-> VolumeOr0(c.volume)]

RECURSIVE BatchRows(_, _, _, _)
\* rows built from candles[from..to], candles without a date left out
BatchRows(l, candles, from, to) ==
    IF to < from THEN <<>>
    ELSE IF candles[to].date = <<>> THEN BatchRows(l, candles, from, to - 1)
    ELSE Append(BatchRows(l, candles, from, to - 1),
                MakeRow(l.instrument_id, l.display, candles[to]))

\* rows of the batch that starts at offset l.i
RowsOfBatch(l, batch_size) ==
    BatchRows(l, l.candles, l.i + 1, Min2(l.i + batch_size, Len(l.candles)))

\* the dict ingest_alpha_vantage returns, under run_all's api_symbol key
IngestResult(api_sym, upserts) ==
    [api_symbol |-> api_sym, ok |-> TRUE, upserts |-> Some(upserts),
     mode |-> "daily", error |-> None]

\* variant: the failure is stored like a success, without its message
FailureAsSuccess(api_sym, msg) ==
    [api_symbol |-> api_sym, ok |-> TRUE, upserts |-> None, mode |-> "",
     error |-> None]

\* the dict run_all records for a symbol whose ingestion raised
FailureResult(api_sym, msg) ==
    [api_symbol |-> api_sym, ok |-> FALSE, upserts |-> None, mode |-> "",
     error |-> Some(msg)]

\* variant: the except clause of a batch leaves the for loop
AbortAfterBatchError(l, batch_size) == [l EXCEPT !.i = Len(l.candles)]

\* the locals after the except clause of a batch: the for loop goes on
AfterBatchError(l, batch_size) == [l EXCEPT !.i = l.i + batch_size]

\* the upserts counter after a batch was upserted (its increment is
\* commented out in the code)
UpsertsAfterBatch(upserts, rows) == upserts

\* the quote upstream gives for day d when asked on day nowday: provisional
\* on the day itself, revised afterwards
Quote(d, nowday) == IF d >= nowday THEN 1 ELSE 2

PlainFields(x) ==
    ("1. open" :> Num(x)) @@ ("2. high" :> Num(x + 1)) @@ ("3. low" :> Num(x))
    @@ ("4. close" :> Num(x + 1)) @@ ("5. volume" :> Num(10 * x))

\* strictly descending sequences of at most n of the dates 1..MaxDay
DescendingDates(n) ==
    {d \in SeqsUpTo(1..MaxDay, n) : \A i \in 1..(Len(d) - 1) : d[i] > d[i + 1]}

OkBody(skey, series) ==
    [timeout |-> FALSE, status |-> 200,
     body |-> [error |-> FALSE, note |-> FALSE, info |-> FALSE, skey |-> skey,
               series |-> series]]

\* upstream responses to the daily fetch of the orchestrator: newest first
\* series, a rate-limit note, a timeout
OrchResponses(fetch_symbol, nowday) ==
    LET skey == IF IsCryptoPair(fetch_symbol, Upper(fetch_symbol))
                  THEN <<"Time Series (Digital Currency Daily)", "">>
                  ELSE <<"Time Series (Daily)", "">>
    IN  {OkBody(skey, [i \in 1..Len(d) |-> [key |-> iso_date(d[i]),
                                            v |-> PlainFields(Quote(d[i], nowday))]]) :
            d \in DescendingDates(MaxEntries)}
        \cup {[OkBody(skey, <<>>) EXCEPT !.body.note = TRUE],
              [OkBody(skey, <<>>) EXCEPT !.timeout = TRUE]}

Idle == <<>>
NoCall == [instrument_id |-> 0, candles |-> <<>>, failed |-> FALSE, count |-> 0]

Init ==
    /\ env \in Environments
    /\ config \in Configs
    /\ symbols = <<>>
    /\ now = DefaultStart
    /\ run = 1
    /\ pc = "main"
    /\ idx = 0
    /\ results = <<>>
    /\ loc = NoLoc
    /\ instruments = <<>>
    /\ ohlcv = <<>>
    /\ outcome = <<>>
    /\ calls = <<>>
    /\ ohlcv0 = <<>>
    /\ batchLog = <<>>
    /\ prev = NoCall
    /\ req = Idle /\ resp = Idle /\ fres = Idle
    /\ intraday = Idle /\ reordered = Idle /\ agg = Idle /\ agg2 = Idle
    /\ rinput = Idle /\ resolved = Idle

\* __main__ with no symbol configured: exit(1)
MainExit ==
    /\ pc = "main" /\ ParseSymbols(config) = <<>>
    /\ pc' = "exit1"
    /\ UNCHANGED <<env, config, symbols, now, run, idx, results, loc, instruments, ohlcv,
                   outcome, calls, ohlcv0, batchLog, prev>>

\* __main__ with symbols: asyncio.run(run_all()) starts
MainRun ==
    /\ pc = "main" /\ ParseSymbols(config) # <<>>
    /\ symbols' = ParseSymbols(config)
    /\ pc' = "loop" /\ idx' = 1
    /\ results' = <<>> /\ outcome' = <<>> /\ calls' = <<>>
    /\ UNCHANGED <<env, config, now, run, loc, instruments, ohlcv, ohlcv0,
                   batchLog, prev>>

\* run_all: a symbol the resolver cannot map is skipped
LoopSkip ==
    /\ pc = "loop" /\ idx <= Len(symbols)
    /\ LET r == resolve_alpha_vantage_symbol(symbols[idx])
       IN  ShouldSkip(r.api, r.note)
    /\ idx' = idx + 1
    /\ outcome' = Append(outcome, "skipped")
    /\ UNCHANGED <<env, config, symbols, now, run, pc, results, loc, instruments, ohlcv,
                   calls, ohlcv0, batchLog, prev>>

\* run_all: ingest_alpha_vantage(display_symbol=orig_sym, api_symbol=api_sym)
LoopIngest ==
    /\ pc = "loop" /\ idx <= Len(symbols)
    /\ LET r == resolve_alpha_vantage_symbol(symbols[idx])
       IN  /\ ~ShouldSkip(r.api, r.note)
           /\ loc' = [NoLoc EXCEPT !.display = symbols[idx], !.api = r.api,
                                   !.fetch_symbol = FetchSymbol(r.api, symbols[idx])]
    /\ pc' = "ingest"
    /\ ohlcv0' = ohlcv /\ batchLog' = <<>>
    /\ UNCHANGED <<env, config, symbols, now, run, idx, results, instruments, ohlcv,
                   outcome, calls, prev>>

\* run_all returns its results map
RunAllReturn ==
    /\ pc = "loop" /\ idx > Len(symbols)
    /\ pc' = "done"
    /\ UNCHANGED <<env, config, symbols, now, run, idx, results, loc, instruments, ohlcv,
                   outcome, calls, ohlcv0, batchLog, prev>>

\* the except clause of run_all: record the failure, go on with the loop
Except(msg) ==
    /\ results' = (loc.display :> FailureResult(loc.api, msg)) @@ results
    /\ idx' = idx + 1
    /\ pc' = "loop"
    /\ outcome' = Append(outcome, "failed")
    /\ loc' = NoLoc /\ ohlcv0' = <<>> /\ batchLog' = <<>>

\* ingest: a store credential or the provider's API key is missing
IngestNoCredentials ==
    /\ pc = "ingest"
    /\ ~env.store_creds \/ ~env.api_key
    /\ Except(IF ~env.store_creds THEN ErrStoreCreds ELSE ErrApiKey)
    /\ UNCHANGED <<env, config, symbols, now, run, instruments, ohlcv, calls, prev>>

\* ingest: the instrument record of the display symbol exists
IngestFound ==
    /\ pc = "ingest" /\ env.store_creds /\ env.api_key
    /\ InstrumentHits(instruments, loc.display) # {}
    /\ loc' = [loc EXCEPT !.instrument_id =
                  instruments[MinOf(InstrumentHits(instruments, loc.display))].id]
    /\ pc' = "window"
    /\ UNCHANGED <<env, config, symbols, now, run, idx, results, instruments, ohlcv,
                   outcome, calls, ohlcv0, batchLog, prev>>

\* ingest: no record yet, the insert returns the new record
IngestCreate ==
    /\ pc = "ingest" /\ env.store_creds /\ env.api_key
    /\ InstrumentHits(instruments, loc.display) = {}
    /\ LET id == Len(instruments) + 1
       IN  /\ instruments' = Append(instruments, NewInstrument(id, loc.display))
           /\ loc' = [loc EXCEPT !.instrument_id = id]
    /\ calls' = Append(calls, <<"insert", loc.display, loc.display>>)
    /\ pc' = "window"
    /\ UNCHANGED <<env, config, symbols, now, run, idx, results, ohlcv, outcome, ohlcv0,
                   batchLog, prev>>

\* ingest: no record yet, the insert returns no data or raises
IngestCreateFails ==
    /\ pc = "ingest" /\ env.store_creds /\ env.api_key
    /\ InstrumentHits(instruments, loc.display) = {}
    /\ \E msg \in {ErrCreate, ErrInsert} : Except(msg)
    /\ calls' = Append(calls, <<"insert", loc.display, loc.display>>)
    /\ UNCHANGED <<env, config, symbols, now, run, instruments, ohlcv, prev>>

\* ingest: the daily window from the latest stored date and the UTC date
ComputeWindow ==
    /\ pc = "window"
    /\ loc' = [loc EXCEPT
                  !.since = WindowStart(LatestDate(ohlcv, loc.instrument_id),
                                        OverlapDays(env)),
                  !.today = iso_date(now)]
    /\ pc' = "fetch"
    /\ UNCHANGED <<env, config, symbols, now, run, idx, results, instruments, ohlcv,
                   outcome, calls, ohlcv0, batchLog, prev>>

\* ingest: provider.fetch_daily(fetch_symbol, since, today) returns candles
FetchReturns ==
    /\ pc = "fetch"
    /\ \E r \in OrchResponses(loc.fetch_symbol, now) :
         LET f == fetch_daily(loc.fetch_symbol, Some(loc.since), Some(loc.today),
                              r, now)
         IN  /\ f.ok
             /\ loc' = [loc EXCEPT !.candles = f.candles, !.i = 0, !.upserts = 0]
             /\ calls' = Append(calls, <<"fetch", loc.display, loc.fetch_symbol>>)
    /\ pc' = "batch"
    /\ UNCHANGED <<env, config, symbols, now, run, idx, results, instruments, ohlcv,
                   outcome, ohlcv0, batchLog, prev>>

\* ingest: provider.fetch_daily raises
FetchRaises ==
    /\ pc = "fetch"
    /\ \E r \in OrchResponses(loc.fetch_symbol, now) :
         LET f == fetch_daily(loc.fetch_symbol, Some(loc.since), Some(loc.today),
                              r, now)
         IN  /\ ~f.ok
             /\ Except(f.err)
             /\ calls' = Append(calls, <<"fetch", loc.display, loc.fetch_symbol>>)
    /\ UNCHANGED <<env, config, symbols, now, run, instruments, ohlcv, prev>>

\* ingest: one batch of the loop, its upsert succeeds
BatchUpserted ==
    /\ pc = "batch" /\ loc.i < Len(loc.candles)
    /\ LET rows == RowsOfBatch(loc, BatchSize(env))
       IN  /\ ohlcv' = IF rows = <<>> THEN ohlcv ELSE Upsert(ohlcv, rows)
           /\ loc' = [loc EXCEPT !.i = loc.i + BatchSize(env),
                                 !.upserts = UpsertsAfterBatch(loc.upserts, rows)]
           /\ batchLog' = Append(batchLog, [start |-> loc.i, rows |-> rows,
                                            ok |-> TRUE])
    /\ UNCHANGED <<env, config, symbols, now, run, pc, idx, results, instruments,
                   outcome, calls, ohlcv0, prev>>

\* ingest: one batch of the loop, its upsert raises (nothing of it is stored)
BatchFails ==
    /\ pc = "batch" /\ loc.i < Len(loc.candles)
    /\ LET rows == RowsOfBatch(loc, BatchSize(env))
       IN  /\ rows # <<>>
           /\ loc' = AfterBatchError(loc, BatchSize(env))
           /\ batchLog' = Append(batchLog, [start |-> loc.i, rows |-> rows,
                                            ok |-> FALSE])
    /\ UNCHANGED <<env, config, symbols, now, run, pc, idx, results, instruments, ohlcv,
                   outcome, calls, ohlcv0, prev>>

\* summary of the ingest call that returns
CallSummary ==
    [instrument_id |-> loc.instrument_id, candles |-> loc.candles,
     failed |-> \E k \in 1..Len(batchLog) : ~batchLog[k].ok,
     count |-> Cardinality(RowsOf(ohlcv, loc.instrument_id))]

\* ingest returns; run_all stores the result under the display symbol
IngestReturn ==
    /\ pc = "batch" /\ loc.i >= Len(loc.candles)
    /\ results' = (loc.display :> IngestResult(loc.api, loc.upserts)) @@ results
    /\ outcome' = Append(outcome, "ok")
    /\ pc' = "sleep"
    /\ UNCHANGED <<env, config, symbols, now, run, idx, loc, instruments, ohlcv, calls,
                   ohlcv0, batchLog, prev>>

\* run_all: asyncio.sleep(sleep_time) after a symbol that was ingested
Sleep ==
    /\ pc = "sleep"
    /\ calls' = Append(calls, <<"sleep", loc.display, loc.display>>)
    /\ idx' = idx + 1
    /\ pc' = "loop"
    /\ prev' = CallSummary
    /\ loc' = NoLoc /\ ohlcv0' = <<>> /\ batchLog' = <<>>
    /\ UNCHANGED <<env, config, symbols, now, run, results, instruments, ohlcv, outcome>>

\* the job is started again (a periodic batch job), the same day or later
NewRun ==
    /\ pc = "done" /\ run < MaxRuns
    /\ run' = run + 1
    /\ \E d \in 0..1 : now + d <= MaxDay /\ now' = now + d
    /\ pc' = "main" /\ idx' = 0
    /\ UNCHANGED <<env, config, symbols, results, loc, instruments, ohlcv, outcome, calls,
                   ohlcv0, batchLog, prev>>

Next ==
    \/ (MainExit /\ UNCHANGED <<fetchVars, aggVars, resVars>>)
    \/ (MainRun /\ UNCHANGED <<fetchVars, aggVars, resVars>>)
    \/ (LoopSkip /\ UNCHANGED <<fetchVars, aggVars, resVars>>)
    \/ (LoopIngest /\ UNCHANGED <<fetchVars, aggVars, resVars>>)
    \/ (RunAllReturn /\ UNCHANGED <<fetchVars, aggVars, resVars>>)
    \/ (IngestNoCredentials /\ UNCHANGED <<fetchVars, aggVars, resVars>>)
    \/ (IngestFound /\ UNCHANGED <<fetchVars, aggVars, resVars>>)
    \/ (IngestCreate /\ UNCHANGED <<fetchVars, aggVars, resVars>>)
    \/ (IngestCreateFails /\ UNCHANGED <<fetchVars, aggVars, resVars>>)
    \/ (ComputeWindow /\ UNCHANGED <<fetchVars, aggVars, resVars>>)
    \/ (FetchReturns /\ UNCHANGED <<fetchVars, aggVars, resVars>>)
    \/ (FetchRaises /\ UNCHANGED <<fetchVars, aggVars, resVars>>)
    \/ (BatchUpserted /\ UNCHANGED <<fetchVars, aggVars, resVars>>)
    \/ (BatchFails /\ UNCHANGED <<fetchVars, aggVars, resVars>>)
    \/ (IngestReturn /\ UNCHANGED <<fetchVars, aggVars, resVars>>)
    \/ (Sleep /\ UNCHANGED <<fetchVars, aggVars, resVars>>)
    \/ (NewRun /\ UNCHANGED <<fetchVars, aggVars, resVars>>)

Spec == Init /\ [][Next]_vars

-----------------------------------------------------------------------------
(* Properties of the orchestrator, checked under Spec                      *)

\* at most one ohlcv row per (instrument_id, date)
UniqueRows ==
    \A i, j \in 1..Len(ohlcv) :
        (/\ ohlcv[i].instrument_id = ohlcv[j].instrument_id
         /\ ohlcv[i].date = ohlcv[j].date) => i = j

\* the ingest call that just returned fetched the same candles as the call
\* that returned before it, for the same instrument
SameCandlesAgain ==
    /\ pc = "sleep"
    /\ prev.instrument_id = loc.instrument_id
    /\ prev.candles = loc.candles

RowCount == Cardinality(RowsOf(ohlcv, loc.instrument_id))

C2_FailureRecordedLoopGoesOn ==
    /\ \A i \in 1..Len(outcome) :
         (/\ outcome[i] = "failed"
          /\ \A j \in (i + 1)..Len(outcome) : symbols[j] # symbols[i])
         => /\ symbols[i] \in DOMAIN results
            /\ ~results[symbols[i]].ok
            /\ results[symbols[i]].error # None
    /\ pc = "done" =>
         /\ Len(outcome) = Len(symbols)
         /\ \A i \in 1..Len(symbols) :
              outcome[i] # "skipped" => symbols[i] \in DOMAIN results

\* a run in which a symbol failed and a later one was ingested
C2_Witness ==
    /\ pc = "done"
    /\ \E i, j \in 1..Len(outcome) :
         /\ i < j /\ outcome[i] = "failed" /\ outcome[j] = "ok"
         /\ ~results[symbols[i]].ok /\ results[symbols[j]].ok

RECURSIVE ReplayBatches(_, _, _)
\* the table after the upserts of the first n logged batches that succeeded
ReplayBatches(table, log, n) ==
    IF n = 0 THEN table
    ELSE IF log[n].ok /\ log[n].rows # <<>>
      THEN Upsert(ReplayBatches(table, log, n - 1), log[n].rows)
    ELSE ReplayBatches(table, log, n - 1)

RECURSIVE LoggedRows(_, _)
\* the rows of the first n logged batches, in order
LoggedRows(log, n) ==
    IF n = 0 THEN <<>> ELSE LoggedRows(log, n - 1) \o log[n].rows

\* C3: a batch whose upsert fails writes none of its rows (the table is
\* what the successful batches alone make of it), every batch of the
\* fetched candles is attempted, in order, and the call returns ok.
C3_BatchFailureSkipped ==
    /\ pc \in {"batch", "sleep"} =>
         ohlcv = ReplayBatches(ohlcv0, batchLog, Len(batchLog))
    /\ pc = "sleep" =>
         /\ LoggedRows(batchLog, Len(batchLog))
              = BatchRows(loc, loc.candles, 1, Len(loc.candles))
         /\ \A k \in 1..Len(batchLog) :
              batchLog[k].start = (k - 1) * BatchSize(env)
         /\ loc.display \in DOMAIN results
         /\ results[loc.display].ok
         /\ results[loc.display].error = None

\* a call that returned after a failed batch followed by a successful one
C3_Witness ==
    /\ pc = "sleep"
    /\ \E k, m \in 1..Len(batchLog) :
         k < m /\ ~batchLog[k].ok /\ batchLog[m].ok
    /\ ohlcv # ohlcv0

Skipped(sym) ==
    resolve_alpha_vantage_symbol(sym).note = <<"skip_unsupported">>

\* C4: for a symbol that resolves to skip_unsupported no instrument record
\* is created, no upstream fetch is issued and no ohlcv row is written.
C4_SkippedUntouched ==
    \A i \in 1..Len(symbols) :
        Skipped(symbols[i]) =>
            /\ \A k \in 1..Len(instruments) : instruments[k].symbol # symbols[i]
            /\ \A k \in 1..Len(ohlcv) : ohlcv[k].instrument_symbol # symbols[i]
            /\ \A k \in 1..Len(calls) : calls[k][2] # symbols[i]
            /\ symbols[i] \notin DOMAIN results
            /\ loc.display # symbols[i]

\* a finished run that skipped a symbol and stored rows for another
C4_Witness ==
    /\ pc = "done"
    /\ \E i \in 1..Len(outcome) : outcome[i] = "skipped" /\ Skipped(symbols[i])
    /\ ohlcv # <<>>

RECURSIVE SumRows(_, _)
\* number of rows written by the first n logged batches
SumRows(log, n) ==
    IF n = 0 THEN 0
    ELSE SumRows(log, n - 1) + (IF log[n].ok THEN Len(log[n].rows) ELSE 0)

\* C5: the upserts count of the returned result is the number of rows
\* written by the batches whose upsert succeeded.
C5_UpsertsCount ==
    pc = "sleep" =>
        results[loc.display].upserts = Some(SumRows(batchLog, Len(batchLog)))

StoredOrdinals ==
    {DigitsValue(ohlcv[i].date) : i \in RowsOf(ohlcv, loc.instrument_id)}
MaxOf(S) == CHOOSE x \in S : \A y \in S : x >= y

\* C6: the window starts at the instrument's most recent stored date minus
\* the overlap (1 day when not configured), at 2022-01-01 when it has no
\* row, and ends at the current UTC date.
C6_FetchWindow ==
    pc = "fetch" =>
        /\ Len(loc.since) = DateLen /\ Len(loc.today) = DateLen
        /\ DigitsValue(loc.today) = now
        /\ StoredOrdinals = {} => DigitsValue(loc.since) = DefaultStart
        /\ StoredOrdinals # {} =>
             DigitsValue(loc.since) =
                 MaxOf(StoredOrdinals)
                 - (IF env.overlap_days = None THEN 1 ELSE The(env.overlap_days))

\* a window computed from stored rows with the default overlap, the latest
\* stored date not the only one
C6_Witness ==
    /\ pc = "fetch"
    /\ env.overlap_days = None
    /\ Cardinality(StoredOrdinals) > 1
    /\ DigitsValue(loc.since) = now - 1

\* C7: the fetch is made with the fetch symbol the resolver gave; every
\* ohlcv row carries the display symbol and the id of the instrument record
\* of that display symbol, also when the fetch symbol is a proxy.
C7_DisplayIdentity ==
    /\ \A k \in 1..Len(calls) :
         calls[k][1] = "fetch" =>
             calls[k][3] = resolve_alpha_vantage_symbol(calls[k][2]).api
    /\ \A k \in 1..Len(ohlcv) :
         /\ \E i \in 1..Len(symbols) : symbols[i] = ohlcv[k].instrument_symbol
         /\ ohlcv[k].instrument_id \in 1..Len(instruments)
         /\ instruments[ohlcv[k].instrument_id].symbol = ohlcv[k].instrument_symbol
         /\ instruments[ohlcv[k].instrument_id].id = ohlcv[k].instrument_id

\* rows stored under ^GSPC from a fetch of its proxy SPY
C7_Witness ==
    /\ \E k \in 1..Len(calls) : calls[k] = <<"fetch", GSPC, SPY>>
    /\ \E k \in 1..Len(ohlcv) : ohlcv[k].instrument_symbol = GSPC
    /\ \A k \in 1..Len(ohlcv) : ohlcv[k].instrument_symbol # SPY

\* C15: in the driving loop a pacing delay elapses between the processing of
\* any two consecutive non-skipped symbols: between any two upstream fetches
\* of one run there is a sleep, whatever the outcome of the earlier symbol.
C15_PacedFetches ==
    \A i, j \in 1..Len(calls) :
        (i < j /\ calls[i][1] = "fetch" /\ calls[j][1] = "fetch")
        => \E k \in (i + 1)..(j - 1) : calls[k][1] = "sleep"

\* C16: when a required credential (store endpoint, store key or upstream
\* API key) is missing the run aborts before any symbol is processed: no
\* symbol gets an outcome and no fetch or store call is made.
C16_CredentialsFatal ==
    (~env.store_creds \/ ~env.api_key)
    => /\ results = <<>>
       /\ \A i \in 1..Len(outcome) : outcome[i] = "skipped"
       /\ calls = <<>>
       /\ instruments = <<>> /\ ohlcv = <<>>

\* the text is empty or blank
Blank(text) == \A i \in 1..Len(text) : text[i] = " "

\* the text has a character that is neither a blank nor a separator
HasEntry(text) == \E i \in 1..Len(text) : text[i] \notin {" ", ","}

NothingAttempted ==
    /\ pc \in {"main", "exit1"}
    /\ calls = <<>> /\ results = <<>>
    /\ instruments = <<>> /\ ohlcv = <<>>

\* no symbol comes out of the two variables
NoSymbolConfigured ==
    \/ (Blank(config.SYMBOLS) /\ Blank(config.SYMBOL))
    \/ (~Blank(config.SYMBOLS) /\ ~HasEntry(config.SYMBOLS))

\* C17 (as amended): when no symbol is configured (SYMBOLS and SYMBOL both
\* empty or blank, or SYMBOLS not blank but holding only separators and
\* blanks) the process exits with code 1 without any network or store call;
\* otherwise it never exits with code 1 and the driving loop runs over a
\* list that is not empty.
C17_ExitWithoutSymbols ==
    /\ NoSymbolConfigured => NothingAttempted
    /\ ~NoSymbolConfigured
         => /\ pc # "exit1"
            /\ pc # "main" => symbols # <<>>

\* C17 as stated: when SYMBOLS and SYMBOL are both empty or blank the process
\* exits with code 1 without any network or store call; otherwise the loop runs
C17_AsStated ==
    /\ (Blank(config.SYMBOLS) /\ Blank(config.SYMBOL)) => NothingAttempted
    /\ ~(Blank(config.SYMBOLS) /\ Blank(config.SYMBOL))
         => /\ pc # "exit1"
            /\ pc # "main" => symbols # <<>>

\* exit(1) with both variables blank
C17_Witness ==
    /\ pc = "exit1"
    /\ config = [SYMBOLS |-> <<" ">>, SYMBOL |-> <<" ">>]
    /\ calls = <<>>

\* fetch events among the calls from position n + 1 on
FetchesAfter(log, n) == {k \in (n + 1)..Len(log) : log[k][1] = "fetch"}

\* C19: the store holds at most one instrument record per display symbol;
\* ingest creates a record only when the lookup by display symbol finds
\* none, never changes an existing record, and a failure to create the
\* record ends that symbol's ingestion before any fetch or row write.
C19_InstrumentPerSymbol ==
    [][/\ \A i, j \in 1..Len(instruments') :
            instruments'[i].symbol = instruments'[j].symbol => i = j
       /\ Len(instruments') >= Len(instruments)
       /\ \A k \in 1..Len(instruments) : instruments'[k] = instruments[k]
       /\ Len(instruments') > Len(instruments)
            => /\ Len(instruments') = Len(instruments) + 1
               /\ instruments'[Len(instruments')].symbol = loc.display
               /\ \A k \in 1..Len(instruments) :
                    instruments[k].symbol # loc.display
       /\ (pc = "ingest" /\ pc' = "loop")
            => /\ ohlcv' = ohlcv /\ instruments' = instruments
               /\ FetchesAfter(calls', Len(calls)) = {}
               /\ outcome' = Append(outcome, "failed")]_vars

\* the second run finds the record the first one created and inserts nothing
C19_Witness ==
    /\ run = 2 /\ pc = "window"
    /\ Len(instruments) = 1 /\ instruments[1].symbol = loc.display
    /\ loc.instrument_id = instruments[1].id
    /\ calls = <<>>

\* C20: an ingest call whose upstream fetch fails writes or changes no ohlcv
\* row and leaves the instrument record it created in the store; a later
\* call for the same display symbol finds the record, inserts none, and with
\* no row stored for it starts from the default date 2022-01-01.
C20_FailedFetchLeavesInstrument ==
    [][/\ (pc = "fetch" /\ pc' = "loop")
            => /\ ohlcv' = ohlcv /\ ohlcv = ohlcv0
               /\ instruments' = instruments
               /\ \E k \in 1..Len(instruments') :
                    instruments'[k].symbol = loc.display
       /\ (/\ pc = "ingest" /\ pc' = "window"
           /\ \E k \in 1..Len(instruments) : instruments[k].symbol = loc.display)
            => instruments' = instruments /\ calls' = calls
       /\ (/\ pc = "window" /\ pc' = "fetch"
           /\ \A k \in 1..Len(ohlcv) : ohlcv[k].instrument_id # loc.instrument_id)
            => loc'.since = iso_date(DefaultStart)]_vars

\* the first AAPL of the list failed at the fetch; the second call found its
\* record and fetches from the default date
C20_Witness ==
    /\ pc = "fetch" /\ idx = 2 /\ outcome = <<"failed">>
    /\ symbols = <<AAPL, AAPL>>
    /\ calls = <<<<"insert", AAPL, AAPL>>, <<"fetch", AAPL, AAPL>>>>
    /\ Len(instruments) = 1 /\ ohlcv = <<>>
    /\ loc.instrument_id = instruments[1].id
    /\ loc.since = iso_date(DefaultStart)

-----------------------------------------------------------------------------
(* The provider adapter exercised alone: one fetch of one response         *)

\* the orchestrator at rest
OrchIdle ==
    /\ env = Config(TRUE, TRUE, None, None)
    /\ config = NoSymbols /\ symbols = <<>> /\ now = DefaultStart /\ run = 1
    /\ pc = "main" /\ idx = 0 /\ results = <<>> /\ loc = NoLoc
    /\ instruments = <<>> /\ ohlcv = <<>>
    /\ outcome = <<>> /\ calls = <<>> /\ ohlcv0 = <<>> /\ batchLog = <<>>
    /\ prev = NoCall

Interval == "60min"

SKeyDaily == <<"Time Series (Daily)", "">>
SKeyCryptoDaily == <<"Time Series (Digital Currency Daily)", "">>
SKeyIntraday == <<"Time Series", Interval>>
SKeyCryptoIntraday == <<"Time Series Crypto", Interval>>
SeriesKeys == {SKeyDaily, SKeyCryptoDaily, SKeyIntraday, SKeyCryptoIntraday}

\* day ordinals and (day, hour) instants the series of a response are keyed by
SeriesDays == {2, 9, 10}
SeriesInstants == {<<1, 9>>, <<2, 0>>, <<2, 1>>}

\* fields of a series entry: the plain scheme, the USD-suffixed crypto
\* scheme, an entry without its open field
UsdFields(x) ==
    ("1a. open (USD)" :> Num(x)) @@ ("2a. high (USD)" :> Num(x + 1))
    @@ ("3a. low (USD)" :> Num(x)) @@ ("4a. close (USD)" :> Num(x + 1))
    @@ ("5. volume" :> Num(10 * x))
NoOpenFields(x) ==
    ("2. high" :> Num(x + 1)) @@ ("3. low" :> Num(x)) @@ ("4. close" :> Num(x + 1))
EntryFields == {PlainFields(1), UsdFields(2), NoOpenFields(3)}

\* an injective sequence
Distinct(q) == \A i, j \in 1..Len(q) : q[i] = q[j] => i = j

\* series of at most MaxEntries entries with distinct keys, in any order
SeriesOver(keys) ==
    {[i \in 1..Len(k) |-> [key |-> k[i], v |-> f[i]]] :
        <<k, f>> \in {p \in {q \in SeqsUpTo(keys, MaxEntries) : Distinct(q)}
                              \X SeqsUpTo(EntryFields, MaxEntries) :
                        Len(p[1]) = Len(p[2])}}

DailySeries == SeriesOver({iso_date(d) : d \in SeriesDays})
IntradaySeries == SeriesOver({Timestamp(t[1], t[2]) : t \in SeriesInstants})

\* the series of the date filtering example: 2022-01-10 down to 2022-01-01
ExampleSeries == [i \in 1..10 |-> [key |-> iso_date(11 - i), v |-> PlainFields(1)]]

FlaggedBody(e, n, i, skey, series) ==
    [timeout |-> FALSE, status |-> 200,
     body |-> [error |-> e, note |-> n, info |-> i, skey |-> skey,
               series |-> series]]

\* responses: a body without out-of-band key under every series key; the
\* out-of-band keys in every combination, with and without a valid series;
\* a failure status; a timeout
FetchResponses ==
    {OkBody(k, s) : k \in {SKeyDaily, SKeyCryptoDaily},
                    s \in DailySeries \cup {ExampleSeries}}
    \cup {OkBody(k, s) : k \in {SKeyIntraday, SKeyCryptoIntraday},
                         s \in IntradaySeries}
    \cup {FlaggedBody(e, n, i, k, s) :
            e \in BOOLEAN, n \in BOOLEAN, i \in BOOLEAN,
            k \in {SKeyDaily, SKeyCryptoDaily},
            s \in {<<>>, <<[key |-> iso_date(2), v |-> PlainFields(1)]>>}}
    \cup {FlaggedBody(e, n, i, k, s) :
            e \in BOOLEAN, n \in BOOLEAN, i \in BOOLEAN,
            k \in {SKeyIntraday, SKeyCryptoIntraday},
            s \in {<<>>, <<[key |-> Timestamp(2, 0), v |-> PlainFields(1)]>>}}
    \cup {[FlaggedBody(FALSE, TRUE, FALSE, SKeyDaily, <<>>) EXCEPT !.status = 500],
          [FlaggedBody(FALSE, FALSE, FALSE, SKeyDaily, <<>>) EXCEPT !.timeout = TRUE]}

FetchRequests ==
    [mode : {"daily"}, symbol : {AAPL, BTCUSD},
     since : {None, Some(iso_date(5)), Some(iso_date(9))},
     until : {None, Some(iso_date(7)), Some(iso_date(10))}]
    \cup [mode : {"intraday"}, symbol : {AAPL, BTCUSD},
          since : {None, Some(Timestamp(1, 9)), Some(Timestamp(2, 1))},
          until : {None, Some(Timestamp(2, 0)), Some(Timestamp(2, 1))}]

InitFetch ==
    /\ OrchIdle
    /\ req \in FetchRequests
    /\ resp \in FetchResponses
    /\ fres = Idle
    /\ intraday = Idle /\ reordered = Idle /\ agg = Idle /\ agg2 = Idle
    /\ rinput = Idle /\ resolved = Idle

\* provider.fetch_daily(symbol, since, until) on the response
FetchDaily ==
    /\ fres = Idle /\ req.mode = "daily"
    /\ fres' = <<fetch_daily(req.symbol, req.since, req.until, resp, now)>>
    /\ UNCHANGED <<req, resp>>

\* provider.fetch_intraday(symbol, interval, since_ts, until_ts) on the response
FetchIntraday ==
    /\ fres = Idle /\ req.mode = "intraday"
    /\ fres' = <<fetch_intraday(req.symbol, Interval, req.since, req.until, resp)>>
    /\ UNCHANGED <<req, resp>>

NextFetch ==
    \/ (FetchDaily /\ UNCHANGED <<orchVars, aggVars, resVars>>)
    \/ (FetchIntraday /\ UNCHANGED <<orchVars, aggVars, resVars>>)

SpecFetch == InitFetch /\ [][NextFetch]_vars

\* the candle the running path makes of series entry e, None when it drops it
ParsedEntry(e) ==
    IF req.mode = "intraday" THEN Some(IntradayEntry(e.key, e.v))
    ELSE IF IsCryptoPair(req.symbol, Upper(req.symbol))
      THEN CryptoDailyEntry(e.key, e.v)
    ELSE Some(EquityDailyEntry(e.key, e.v))

KeyOf(c) == IF req.mode = "intraday" THEN c.ts ELSE c.date

\* the key lies in [since, until] as a number (a day ordinal, an instant)
InRange(key) ==
    /\ (req.since = None \/ DigitsValue(key) >= DigitsValue(The(req.since)))
    /\ (req.until = None \/ DigitsValue(key) <= DigitsValue(The(req.until)))

Fetched == fres # Idle /\ fres[1].ok

\* C9 (as amended): a response with a success status whose body has a
\* "Note" key and no "Error Message" key makes fetch_daily and
\* fetch_intraday (equity and crypto) fail with the rate-limit failure and
\* return no candles, whether or not a valid series is present.
C9_NoteIsRateLimit ==
    (/\ fres # Idle /\ ~resp.timeout /\ resp.status = 200
     /\ resp.body.note /\ ~resp.body.error)
    => /\ ~fres[1].ok
       /\ fres[1].err = ErrRate
       /\ fres[1].candles = <<>>

\* C9 as stated: every 200-status response body with a "Note" key is a
\* rate-limit failure without candles
C9_AsStated ==
    (fres # Idle /\ ~resp.timeout /\ resp.status = 200 /\ resp.body.note)
    => /\ ~fres[1].ok
       /\ fres[1].err = ErrRate
       /\ fres[1].candles = <<>>

\* a crypto intraday fetch of a body with a "Note" key and a valid series
C9_Witness ==
    /\ fres # Idle /\ fres[1].err = ErrRate
    /\ req.mode = "intraday" /\ req.symbol = BTCUSD
    /\ resp.status = 200 /\ resp.body.note /\ ~resp.body.error /\ resp.body.info
    /\ resp.body.skey = SKeyCryptoIntraday
    /\ resp.body.series # <<>>

\* C10: a fetch that returns gives exactly the parsed candles whose date or
\* timestamp lies in [since, until] (None does not restrict), in strictly
\* ascending order; for the series 2022-01-01 .. 2022-01-10 and the window
\* 2022-01-05 .. 2022-01-07 these are the 3 candles of the 5th, 6th and 7th.
C10_FilteredAscending ==
    Fetched =>
        LET out == fres[1].candles
            series == resp.body.series
            kept == {j \in 1..Len(series) :
                        ParsedEntry(series[j]) # None /\ InRange(series[j].key)}
        IN  /\ {out[i] : i \in 1..Len(out)}
                 = {The(ParsedEntry(series[j])) : j \in kept}
            /\ \A i \in 1..(Len(out) - 1) :
                 DigitsValue(KeyOf(out[i])) < DigitsValue(KeyOf(out[i + 1]))
            /\ (/\ series = ExampleSeries
                /\ req.since = Some(iso_date(5)) /\ req.until = Some(iso_date(7)))
               => [i \in 1..Len(out) |-> out[i].date]
                      = <<iso_date(5), iso_date(6), iso_date(7)>>

\* the example: ten candles, newest first, the window 5th to 7th, 3 returned
C10_Witness ==
    /\ Fetched
    /\ resp.body.series = ExampleSeries
    /\ req.since = Some(iso_date(5)) /\ req.until = Some(iso_date(7))
    /\ Len(fres[1].candles) = 3

\* the entry has neither the four plain price fields nor the four
\* USD-suffixed ones (in the a or the b spelling)
LacksPrice(v) ==
    /\ \E k \in {"1. open", "2. high", "3. low", "4. close"} : k \notin DOMAIN v
    /\ \/ ("1a. open (USD)" \notin DOMAIN v /\ "1b. open (USD)" \notin DOMAIN v)
       \/ ("2a. high (USD)" \notin DOMAIN v /\ "2b. high (USD)" \notin DOMAIN v)
       \/ ("3a. low (USD)" \notin DOMAIN v /\ "3b. low (USD)" \notin DOMAIN v)
       \/ ("4a. close (USD)" \notin DOMAIN v /\ "4b. close (USD)" \notin DOMAIN v)

\* the response passed the checks made before the series is read
SeriesRead ==
    /\ fres # Idle
    /\ fres[1].err \notin {ErrTimeout, ErrHttp, ErrApi, ErrRate, ErrInfo, ErrPayload}

\* C14: for every series entry that lacks any of the open, high, low or
\* close fields the provider returns no candle for its date or timestamp
\* and the fetch does not fail; the other entries in the window are returned.
C14_MissingFieldDropped ==
    SeriesRead =>
        LET out == fres[1].candles
            series == resp.body.series
        IN  /\ fres[1].ok
            /\ \A j \in 1..Len(series) :
                 IF LacksPrice(series[j].v)
                   THEN \A i \in 1..Len(out) : KeyOf(out[i]) # series[j].key
                   ELSE InRange(series[j].key)
                          => \E i \in 1..Len(out) : KeyOf(out[i]) = series[j].key

-----------------------------------------------------------------------------
(* The intraday aggregator exercised alone: a list and a reordering of it  *)

\* most candles of an input list
MaxCandles == 3

\* candles of two days, two hours each, with two sets of quotes; volume
\* absent in one
IntradayCandles ==
    {[ts |-> Timestamp(d, h), open |-> q, high |-> q + 2, low |-> q - 1,
      close |-> q + 1, volume |-> IF q = 1 THEN None ELSE Some(5 * q)] :
        d \in {1, 2}, h \in {3, 9}, q \in {1, 4}}

\* the reorderings of list
Reorderings(list) ==
    {[i \in 1..Len(list) |-> list[f[i]]] :
        f \in {g \in [1..Len(list) -> 1..Len(list)] : Distinct(g)}}

InitAgg ==
    /\ OrchIdle
    /\ req = Idle /\ resp = Idle /\ fres = Idle
    /\ intraday \in SeqsUpTo(IntradayCandles, MaxCandles)
    /\ reordered \in Reorderings(intraday)
    /\ agg = Idle /\ agg2 = Idle
    /\ rinput = Idle /\ resolved = Idle

\* aggregate_intraday_to_daily applied to the list and to its reordering
Aggregate ==
    /\ agg = Idle
    /\ agg' = <<aggregate_intraday_to_daily(intraday)>>
    /\ agg2' = <<aggregate_intraday_to_daily(reordered)>>
    /\ UNCHANGED <<intraday, reordered>>

NextAgg == Aggregate /\ UNCHANGED <<orchVars, fetchVars, resVars>>

SpecAgg == InitAgg /\ [][NextAgg]_vars

\* the daily bars of a result: open, high, low, close, volume per date
DailyBars(by_date) ==
    [d \in DOMAIN by_date |->
        [open |-> by_date[d].open, high |-> by_date[d].high,
         low |-> by_date[d].low, close |-> by_date[d].close,
         volume |-> by_date[d].volume]]

DistinctTimestamps(list) ==
    \A i, j \in 1..Len(list) : list[i].ts = list[j].ts => i = j

\* C8: for every list of intraday candles and every reordering of it, the
\* returned daily bars (open, high, low, close, volume per date) are the same.
C8_OrderIndependent == agg # Idle => DailyBars(agg[1]) = DailyBars(agg2[1])

\* the bars of the two orders differ only through candles of equal timestamp
DistinctTimestampsAgree ==
    (agg # Idle /\ DistinctTimestamps(intraday))
    => DailyBars(agg[1]) = DailyBars(agg2[1])

-----------------------------------------------------------------------------
(* The symbol resolver exercised alone                                     *)

\* longest text over SymbolChars given to the resolver
MaxSymbolLen == 3

SymbolChars == {"^", "=", "F", "f", "-", " ", "A"}

LowerChar(c) ==
    CASE c = "A" -> "a" [] c = "L" -> "l" [] c = "P" -> "p"
      [] c = "S" -> "s" [] c = "U" -> "u" [] c = "D" -> "d"
      [] c = "B" -> "b" [] c = "T" -> "t" [] c = "C" -> "c"
      [] c = "G" -> "g" [] c = "F" -> "f" [] c = "X" -> "x"
      [] OTHER -> c
Lower(s) == [i \in 1..Len(s) |-> LowerChar(s[i])]

\* tickers as an operator types them
Tickers ==
    {AAPL, SPY, GSPC, IXIC, TNX, GCF, DJI, BTCUSD, DashUSD,
     <<"C", "L", "=", "F">>, <<"^">> \o BTCUSD, GCF \o DashUSD,
     BTCUSD \o <<"T">>, <<"B", "T", "C", "U", "S", "D">>,
     <<"b", "t", "c">> \o DashUSD}

\* each ticker as typed, in lower case, and with blanks around it
ResolverInputs ==
    UNION {{t, Lower(t), <<" ">> \o t, t \o <<" ">>, <<" ">> \o Lower(t) \o <<" ">>} :
              t \in Tickers}
      \cup SeqsUpTo(SymbolChars, MaxSymbolLen)

InitResolve ==
    /\ OrchIdle
    /\ req = Idle /\ resp = Idle /\ fres = Idle
    /\ intraday = Idle /\ reordered = Idle /\ agg = Idle /\ agg2 = Idle
    /\ rinput \in ResolverInputs
    /\ resolved = Idle

\* resolve_alpha_vantage_symbol applied to the input
Resolve ==
    /\ resolved = Idle
    /\ resolved' = <<resolve_alpha_vantage_symbol(rinput)>>
    /\ UNCHANGED rinput

NextResolve == Resolve /\ UNCHANGED <<orchVars, fetchVars, aggVars>>

SpecResolve == InitResolve /\ [][NextResolve]_vars

\* the input without the blanks around it, in upper case
Normalised == Upper(Strip(rinput))

LooksUnsupported(u) ==
    \/ (u # <<>> /\ u[1] = "^")
    \/ \E i \in 1..(Len(u) - 1) : u[i] = "=" /\ u[i + 1] = "F"

LooksCrypto(u) ==
    /\ \E i \in 1..Len(u) : u[i] = "-"
    /\ Len(u) >= 4
    /\ [i \in 1..4 |-> u[Len(u) - 4 + i]] = <<"-", "U", "S", "D">>

SkipUnsupported == [api |-> <<>>, note |-> <<"skip_unsupported">>]

\* C11 (as amended): every input that, trimmed and uppercased, starts with
\* "^" or contains "=F", is absent from the proxy table and is not a crypto
\* pair (containing "-" and ending in "-USD") resolves to
\* ("", "skip_unsupported").
C11_UnsupportedSkipped ==
    (/\ resolved # Idle
     /\ LooksUnsupported(Normalised)
     /\ Normalised \notin {GSPC, IXIC, TNX, GCF}
     /\ ~LooksCrypto(Normalised))
    => resolved[1] = SkipUnsupported

\* C11 as stated: every input that starts with "^" or contains "=F" and is
\* absent from the proxy table resolves to ("", "skip_unsupported")
C11_AsStated ==
    (/\ resolved # Idle
     /\ LooksUnsupported(Normalised)
     /\ Normalised \notin {GSPC, IXIC, TNX, GCF})
    => resolved[1] = SkipUnsupported

\* " cl=f " is skipped: a future that the proxy table does not hold
C11_Witness ==
    /\ resolved # Idle
    /\ rinput = <<" ", "c", "l", "=", "f", " ">>
    /\ resolved[1] = SkipUnsupported

\* C12 (as amended): every input that, trimmed and uppercased, contains a
\* separator and ends in "-USD" resolves to classification crypto with the
\* trimmed, uppercased input as the fetch symbol.
C12_CryptoUppercased ==
    (resolved # Idle /\ LooksCrypto(Normalised))
    => /\ resolved[1].note = <<"crypto">>
       /\ resolved[1].api = Normalised

\* C12 as stated: every input that contains a separator and ends in "-USD"
\* resolves to classification crypto with the input unchanged
C12_AsStated ==
    (resolved # Idle /\ LooksCrypto(rinput))
    => /\ resolved[1].note = <<"crypto">>
       /\ resolved[1].api = rinput

\* "btc-USD" resolves to the crypto pair "BTC-USD"
C12_Witness ==
    /\ resolved # Idle
    /\ rinput = <<"b", "t", "c", "-", "U", "S", "D">>
    /\ resolved[1] = [api |-> BTCUSD, note |-> <<"crypto">>]

\* C13: every input present in the proxy table resolves to the mapped
\* substitute with classification proxy_for:<input>: ^GSPC to SPY, ^IXIC to
\* QQQ, ^TNX to IEF and GC=F to GLD.
C13_ProxyMapped ==
    resolved # Idle =>
        /\ rinput = GSPC => resolved[1] = [api |-> SPY, note |-> <<"proxy_for:", GSPC>>]
        /\ rinput = IXIC => resolved[1] = [api |-> QQQ, note |-> <<"proxy_for:", IXIC>>]
        /\ rinput = TNX => resolved[1] = [api |-> IEF, note |-> <<"proxy_for:", TNX>>]
        /\ rinput = GCF => resolved[1] = [api |-> GLD, note |-> <<"proxy_for:", GCF>>]

\* "^GSPC" has resolved to ("SPY", "proxy_for:^GSPC")
C13_Witness ==
    /\ resolved # Idle
    /\ rinput = GSPC
    /\ resolved[1] = [api |-> SPY, note |-> <<"proxy_for:", GSPC>>]

\* positions of the candles of date d in the input list
Group(d) ==
    {i \in 1..Len(intraday) :
        [k \in 1..DateLen |-> intraday[i].ts[k]] = d}

RECURSIVE VolumeSum(_)
\* sum of the volumes at the positions S, an absent volume counting as 0
VolumeSum(S) ==
    IF S = {} THEN 0
    ELSE LET i == CHOOSE x \in S : TRUE
             w == IF intraday[i].volume = {} THEN 0
                  ELSE CHOOSE x \in intraday[i].volume : TRUE
         IN  w + VolumeSum(S \ {i})

\* C18: for each date group the bar has open = open of a candle with the
\* earliest timestamp, close = close of a candle with the latest timestamp,
\* high = maximum of the highs, low = minimum of the lows and volume = sum of
\* the volumes with null counted as 0; the output has exactly one bar per
\* distinct date portion of the input timestamps.
C18_DailyBar ==
    agg # Idle =>
        /\ DOMAIN agg[1]
             = {[k \in 1..DateLen |-> intraday[i].ts[k]] : i \in 1..Len(intraday)}
        /\ \A d \in DOMAIN agg[1] :
             LET bar == agg[1][d]
                 at(i) == DigitsValue(intraday[i].ts)
             IN  /\ \E i \in Group(d) :
                      /\ \A j \in Group(d) : at(i) <= at(j)
                      /\ bar.open = intraday[i].open
                 /\ \E i \in Group(d) :
                      /\ \A j \in Group(d) : at(i) >= at(j)
                      /\ bar.close = intraday[i].close
                 /\ \E i \in Group(d) : bar.high = intraday[i].high
                 /\ \A j \in Group(d) : bar.high >= intraday[j].high
                 /\ \E i \in Group(d) : bar.low = intraday[i].low
                 /\ \A j \in Group(d) : bar.low <= intraday[j].low
                 /\ bar.volume = VolumeSum(Group(d))

\* two candles of one day given latest first, the later one without volume:
\* open from the earlier one, close from the later one
C18_Witness ==
    /\ agg # Idle
    /\ intraday =
         <<[ts |-> Timestamp(2, 9), open |-> 1, high |-> 3, low |-> 0,
            close |-> 2, volume |-> None],
           [ts |-> Timestamp(2, 3), open |-> 4, high |-> 6, low |-> 3,
            close |-> 5, volume |-> Some(20)]>>
    /\ DOMAIN agg[1] = {iso_date(2)}
    /\ agg[1][iso_date(2)].open = 4 /\ agg[1][iso_date(2)].close = 2
    /\ agg[1][iso_date(2)].high = 6 /\ agg[1][iso_date(2)].low = 0
    /\ agg[1][iso_date(2)].volume = 20

-----------------------------------------------------------------------------
(* The job run with no overlap and batches of one candle, started on any   *)
(* day: the dates left behind by a failed batch                            *)

\* FETCH_OVERLAP_DAYS=0 with ALPHA_VANTAGE_BATCH_SIZE=1; a missing API key
MarkEnvironments ==
    {Config(TRUE, TRUE, Some(0), Some(1)), Config(TRUE, FALSE, None, None)}

MarkConfigs ==
    {NoSymbols, [SYMBOLS |-> AAPL, SYMBOL |-> <<>>],
     [SYMBOLS |-> Join(<<DJI, AAPL>>), SYMBOL |-> <<>>]}

InitMark ==
    /\ env \in MarkEnvironments
    /\ config \in MarkConfigs
    /\ symbols = <<>>
    /\ now \in DefaultStart..MaxDay
    /\ run = 1
    /\ pc = "main"
    /\ idx = 0
    /\ results = <<>>
    /\ loc = NoLoc
    /\ instruments = <<>>
    /\ ohlcv = <<>>
    /\ outcome = <<>>
    /\ calls = <<>>
    /\ ohlcv0 = <<>>
    /\ batchLog = <<>>
    /\ prev = NoCall
    /\ req = Idle /\ resp = Idle /\ fres = Idle
    /\ intraday = Idle /\ reordered = Idle /\ agg = Idle /\ agg2 = Idle
    /\ rinput = Idle /\ resolved = Idle

SpecMark == InitMark /\ [][Next]_vars

\* day ordinals of the rows table holds for instrument id
OrdinalsOf(table, id) ==
    {DigitsValue(table[k].date) :
        k \in {j \in 1..Len(table) : table[j].instrument_id = id}}

\* the rows table holds for instrument id and day D
RowsAt(table, id, D) ==
    {table[k] : k \in {j \in 1..Len(table) :
                          /\ table[j].instrument_id = id
                          /\ DigitsValue(table[j].date) = D}}

\* highest stored date of instrument id minus the overlap
Mark(table, id) ==
    MaxOf(OrdinalsOf(table, id))
    - (IF env.overlap_days = None THEN 1 ELSE The(env.overlap_days))

\* instrument id has rows and day D is earlier than its window start
BelowMark(table, id, D) == OrdinalsOf(table, id) # {} /\ D < Mark(table, id)

\* C21 (as amended): once an instrument has stored rows every later fetch
\* window starts at its highest stored date minus the overlap; hence a date
\* earlier than that window start, such as the date of a failed batch that a
\* successful batch of the same run followed, is never requested again and
\* its row stays as it was: missing if the date was not stored before.
C21_BelowMarkFrozen ==
    [][/\ (/\ pc = "window" /\ pc' = "fetch"
           /\ OrdinalsOf(ohlcv, loc.instrument_id) # {})
            => DigitsValue(loc'.since) = Mark(ohlcv, loc.instrument_id)
       /\ \A id \in 1..Len(instruments) : \A D \in 0..MaxDay :
            BelowMark(ohlcv, id, D)
            => /\ BelowMark(ohlcv', id, D)
               /\ RowsAt(ohlcv', id, D) = RowsAt(ohlcv, id, D)
               /\ (pc = "window" /\ pc' = "fetch" /\ loc.instrument_id = id)
                    => D < DigitsValue(loc'.since)
               /\ (pc = "fetch" /\ pc' = "batch" /\ loc.instrument_id = id)
                    => \A i \in 1..Len(loc'.candles) :
                         DigitsValue(loc'.candles[i].date) # D]_vars

\* C21 as stated: when a batch of a call failed and a later batch of the
\* call succeeded, each date of the failed batch earlier than the window
\* start that follows from the stored rows is missing from the store
C21_AsStated ==
    pc \in {"batch", "sleep"} =>
        \A k, m \in 1..Len(batchLog) :
            (k < m /\ ~batchLog[k].ok /\ batchLog[m].ok /\ batchLog[m].rows # <<>>)
            => \A i \in 1..Len(batchLog[k].rows) :
                 LET D == DigitsValue(batchLog[k].rows[i].date)
                 IN  BelowMark(ohlcv, loc.instrument_id, D)
                       => RowsAt(ohlcv, loc.instrument_id, D) = {}

\* the call before lost a date in a failed batch and stored a later one; the
\* window of this call starts after the lost date, which is still missing
C21_Witness ==
    /\ pc = "fetch"
    /\ prev.failed /\ prev.instrument_id = loc.instrument_id
    /\ OrdinalsOf(ohlcv, loc.instrument_id) # {}
    /\ \E i \in 1..Len(prev.candles) :
         LET D == DigitsValue(prev.candles[i].date)
         IN  /\ RowsAt(ohlcv, loc.instrument_id, D) = {}
             /\ D < DigitsValue(loc.since)

=============================================================================
